---- MODULE Spec2Model ----
(***************************************************************************)
(* Model of the audio_tutor turn loop and session finalizer.               *)
(*                                                                         *)
(* Two callers run the same loop: the WebSocket handler streaming_audio    *)
(* (src/server/server.py) serves one turn per connection, the terminal     *)
(* session (src/server/services/CLI.py) serves turns until the user says   *)
(* "stop".  Text is a sequence of one-character strings; the literal       *)
(* pieces of the f-strings that build long_transcript are single symbols.  *)
(***************************************************************************)
EXTENDS Integers, Sequences, FiniteSets, TLC

\* ---------------------------------------------------------------- bounds
MaxItems == 3       \* reply-stream items consumed in one session
MaxTurns == 2       \* reply streams started in one terminal session
MaxSaves == 3       \* rows inserted into conversation_history in one run
MaxResponses == 3   \* StreamingRecognize responses in one transcribe call
MaxDocs == 2        \* documents indexed in the vector store before a report
MaxToolCalls == 2   \* tool calls in one model response
MaxFrames == 2      \* binary frames received on one connection
MaxWsItems == 2     \* reply-stream items of the connection's turn
MaxConcText == 3    \* characters the reply stream of a concurrent session yields
MaxMicFrames == 3   \* frames the audio callback puts during one transcribe call

\* ---------------------------------------------------------------- inputs
Users == {"u1"}
Today == "2026-01-01"
Reports == {"report"}
Utterances == { <<"h", "i">>, <<"s", "t", "o", "p">>, <<" ", "S", "t", "o", "p">> }

\* the values of chunk.content the model feeds: empty, single characters, and
\* texts with the boundary character at the end, inside, and before a newline
Fragments ==
    { <<>>, <<"a">>, <<".">>, <<"\n">>, <<"a", ".">>, <<".", "a">>, <<".", "\n">> }

\* the items converse() can yield in stream_mode="messages"
MessageKinds == {"AIMessage", "ToolMessage"}
ToolContents == { <<".">> }
StreamItems ==
    [kind : {"AIMessage"}, content : Fragments] \cup [kind : {"ToolMessage"}, content : ToolContents]
NoItem == [kind |-> "none", content |-> <<>>]

\* variant: the loop body runs for every item, without the isinstance test
IsAnyMessage(chunk) == chunk.kind \in MessageKinds

\* isinstance(chunk, AIMessage)
IsAIMessage(chunk) == chunk.kind = "AIMessage"

\* --------------------------------------------------------- pure functions
\* the character class of r'[.!?:;]'
BoundaryChars == {".", "!", "?", ":", ";"}

\* variant: '$' read as "the very end of the string" (the pattern r'[.!?:;]\Z')
SentenceEndAtVeryEnd(s) == Len(s) >= 1 /\ s[Len(s)] \in BoundaryChars

\* re.search(r'[.!?:;]$', s): in Python '$' matches at the very end of the
\* string and also just before a newline that is the last character.
SentenceEnd(s) ==
    LET n == Len(s)
    IN  \/ n >= 1 /\ s[n] \in BoundaryChars
        \/ n >= 2 /\ s[n] = "\n" /\ s[n - 1] \in BoundaryChars

Whitespace == {" ", "\n", "\t"}

\* str.lower() on the letters of the model's alphabet
LowerChar(c) == IF c = "S" THEN "s" ELSE c
Lower(s) == [i \in 1..Len(s) |-> LowerChar(s[i])]

\* str.strip(): drop leading and trailing whitespace
RECURSIVE LStrip(_)
LStrip(s) == IF s # <<>> /\ Head(s) \in Whitespace THEN LStrip(Tail(s)) ELSE s
RECURSIVE RStrip(_)
RStrip(s) ==
    IF s # <<>> /\ s[Len(s)] \in Whitespace THEN RStrip(SubSeq(s, 1, Len(s) - 1)) ELSE s
Strip(s) == RStrip(LStrip(s))

\* variant: the utterance is compared as transcribed (transcript == "stop")
IsStopVerbatim(transcript) == transcript = <<"s", "t", "o", "p">>

\* transcript.strip().lower() == "stop"
IsStop(transcript) == Lower(Strip(transcript)) = <<"s", "t", "o", "p">>

\* f"{today} \n", f"USERMESSAGE: {query} \n", f"AIMESSAGE: {response} \n"
DateLine(d) == <<d, " \n">>
UserLine(q) == <<"USERMESSAGE: ">> \o q \o <<" \n">>
AILine(r) == <<"AIMESSAGE: ">> \o r \o <<" \n">>

\* ------------------------------------------------------------------ state
VARIABLES
    mode,             \* "ws": streaming_audio, "cli": session
    pc,               \* position of the handler
    user_id,          \* path parameter / typed-in identity
    query,            \* last transcribed utterance (query / transcript)
    long_transcript,  \* the running transcript
    response,         \* full_reply: assistant text of the current turn
    chunk_response,   \* pending_chunk: text since the last emitted chunk
    chunk,            \* loop variable: the reply-stream item being processed
    items,            \* reply-stream items consumed so far in the session
    turn,             \* reply streams started so far in the session
    fed,              \* assistant text yielded by the current reply stream
    turnLog,          \* completed turns: utterance and text the stream yielded
    dispatched,       \* calls made to speak / ws_speak, in order
    calls,            \* external calls made by the finalizer, in order
    report,           \* value returned by create_report
    error             \* the call whose exception ended the handler, or "none"

vars == <<mode, pc, user_id, query, long_transcript, response, chunk_response,
          chunk, items, turn, fed, turnLog, dispatched, calls, report, error>>

loopVars == <<query, long_transcript, response, chunk_response, chunk, items,
              turn, fed, turnLog, dispatched>>

\* state of the other components; each has its own specification below and
\* rests at its idle value in the specifications of the others
VARIABLES
    db_rows,          \* conversation_history: id -> stored row
    db_seq,           \* sqlite_sequence: the largest id ever assigned
    db_ret,           \* what the last DatabaseManager call returned
    db_saves          \* the save_conversation calls made, with the id returned

dbVars == <<db_rows, db_seq, db_ret, db_saves>>

NoReturn == [op |-> "none", id |-> 0, ok |-> FALSE, rows |-> {}]

\* database.py 30-54: the table exists and is empty
DbInit ==
    /\ db_rows = << >>
    /\ db_seq = 0
    /\ db_ret = NoReturn
    /\ db_saves = <<>>

VARIABLES
    stt_in,           \* responses the recognizer has not delivered yet
    stt_all,          \* every response of this transcribe call, in order
    stt_pc,           \* "idle", "listening" or "returned"
    stt_ret           \* the value listen_print_loop returned

sttVars == <<stt_in, stt_all, stt_pc, stt_ret>>

NoValue == [type |-> "pending", val |-> ""]

SttIdle ==
    /\ stt_in = <<>> /\ stt_all = <<>> /\ stt_pc = "idle" /\ stt_ret = NoValue

VARIABLES
    vs_docs,          \* the vector store: documents with their namespace
    g_node,           \* the analyzer graph node to run next
    g_user,           \* state["user_id"] of the invocation
    g_messages,       \* state["messages"]
    g_calls,          \* the retrieve calls executed, with what each returned
    g_report          \* the text create_report returned

graphVars == <<vs_docs, g_node, g_user, g_messages, g_calls, g_report>>

\* analyzer_tutor.py 55-60, 180: an empty store and a compiled graph
GraphInit ==
    /\ vs_docs = {} /\ g_node = "idle" /\ g_user = "none"
    /\ g_messages = <<>> /\ g_calls = <<>> /\ g_report = "none"

VARIABLES
    ws_pc,            \* position of streaming_audio
    ws_lang,          \* the language_code query parameter
    ws_app,           \* the server side of the transport
    ws_client,        \* the client side of the transport
    ws_frames,        \* the binary frames received, in arrival order
    ws_audio,         \* audio_bytes
    ws_stt,           \* the buffers ws_transcribe was called with
    ws_response,      \* response
    ws_chunk,         \* chunk_response
    ws_items,         \* reply-stream items consumed
    ws_out,           \* ws_speak dispatches and websocket sends, in order
    ws_error          \* the exception that ended the handler, or "none"

wsVars == <<ws_pc, ws_lang, ws_app, ws_client, ws_frames, ws_audio, ws_stt,
            ws_response, ws_chunk, ws_items, ws_out, ws_error>>

WsIdle ==
    /\ ws_pc = "idle" /\ ws_lang = "none" /\ ws_app = "connecting"
    /\ ws_client = "connecting" /\ ws_frames = <<>> /\ ws_audio = <<>>
    /\ ws_stt = <<>> /\ ws_response = <<>> /\ ws_chunk = <<>> /\ ws_items = 0
    /\ ws_out = <<>> /\ ws_error = "none"

VARIABLES
    c_pc,             \* position of each concurrent streaming_audio call
    c_locals,         \* the frames holding response and chunk_response
    c_fed,            \* the text each session's own reply stream yielded
    c_sent,           \* the chunks sent on each connection
    c_saved           \* the reply persisted in each session's transcript

concVars == <<c_pc, c_locals, c_fed, c_sent, c_saved>>

Sessions == {1, 2}

ConcIdle ==
    /\ c_pc = [s \in Sessions |-> "idle"]
    /\ c_locals = [s \in Sessions |-> [response |-> <<>>, chunk_response |-> <<>>]]
    /\ c_fed = [s \in Sessions |-> <<>>]
    /\ c_sent = [s \in Sessions |-> <<>>]
    /\ c_saved = [s \in Sessions |-> <<>>]

VARIABLES
    mic_main,         \* position of the thread running the with block
    mic_stream,       \* the PyAudio stream: "unopened", "active" or "stopped"
    mic_closed,       \* self.closed
    mic_buff,         \* self._buff, oldest item first
    mic_gen,          \* position of the consumer inside generator()
    mic_data,         \* the list data of generator()
    mic_put,          \* the frames _fill_buffer has put, in order
    mic_yielded,      \* what generator() has yielded, in order
    mic_none_at       \* number of items yielded when None was dequeued, or -1

micVars == <<mic_main, mic_stream, mic_closed, mic_buff, mic_gen, mic_data,
             mic_put, mic_yielded, mic_none_at>>

\* stt_service.py 37-44: a MicrophoneStream that has not been entered
MicIdle ==
    /\ mic_main = "idle" /\ mic_stream = "unopened" /\ mic_closed = TRUE
    /\ mic_buff = <<>> /\ mic_gen = "none" /\ mic_data = <<>> /\ mic_put = <<>>
    /\ mic_yielded = <<>> /\ mic_none_at = -1

auxVars == <<dbVars, sttVars, graphVars, wsVars, concVars, micVars>>
AuxInit == DbInit /\ SttIdle /\ GraphInit /\ WsIdle /\ ConcIdle /\ MicIdle

\* the turn loop at rest, for the specifications of the other components
LoopIdle ==
    /\ mode = "none" /\ pc = "idle" /\ user_id = "none"
    /\ query = <<>> /\ long_transcript = <<>> /\ response = <<>> /\ chunk_response = <<>>
    /\ chunk = NoItem /\ items = 0 /\ turn = 0 /\ fed = <<>> /\ turnLog = <<>>
    /\ dispatched = <<>> /\ calls = <<>> /\ report = "none" /\ error = "none"

notDb == <<vars, sttVars, graphVars, wsVars, concVars, micVars>>
notStt == <<vars, dbVars, graphVars, wsVars, concVars, micVars>>
notGraph == <<vars, dbVars, sttVars, wsVars, concVars, micVars>>
notWs == <<vars, dbVars, sttVars, graphVars, concVars, micVars>>
notConc == <<vars, dbVars, sttVars, graphVars, wsVars, micVars>>
notMic == <<vars, dbVars, sttVars, graphVars, wsVars, concVars>>

Init ==
    /\ mode \in {"ws", "cli"}
    /\ pc = IF mode = "ws" THEN "ws_transcribe" ELSE "cli_transcribe"
    /\ user_id \in Users
    /\ query = <<>>
    /\ long_transcript = DateLine(Today)
    /\ response = <<>>
    /\ chunk_response = <<>>
    /\ chunk = NoItem
    /\ items = 0
    /\ turn = 0
    /\ fed = <<>>
    /\ turnLog = <<>>
    /\ dispatched = <<>>
    /\ calls = <<>>
    /\ report = "none"
    /\ error = "none"
    /\ AuxInit

\* ------------------------------------------------------------- operations
Call(op, user, date, text) == [op |-> op, user |-> user, date |-> date, text |-> text]

\* an uncaught exception leaves the handler: nothing after the raising call runs
Raise(op) == pc' = "crashed" /\ error' = op

\* server.py 80-86: transcribe the collected audio and open the only turn
WsTranscribe ==
    /\ mode = "ws" /\ pc = "ws_transcribe"
    /\ \E q \in Utterances :
          /\ query' = q
          /\ long_transcript' = long_transcript \o UserLine(q)
    /\ response' = <<>>
    /\ chunk_response' = <<>>
    /\ turn' = turn + 1
    /\ fed' = <<>>
    /\ pc' = "stream"
    /\ UNCHANGED <<mode, user_id, chunk, items, turnLog, dispatched, calls, report, error>>
    /\ UNCHANGED auxVars

\* variant: the next utterance is taken while the reply stream is still open
CliTranscribeWhileStreaming ==
    /\ mode = "cli" /\ pc \in {"cli_transcribe", "stream"}
    /\ \E q \in Utterances :
          /\ turn < MaxTurns \/ IsStop(q)
          /\ query' = q
          /\ long_transcript' = long_transcript \o UserLine(q)
          /\ IF IsStop(q)
                THEN pc' = "save" /\ UNCHANGED <<turn, fed>>
                ELSE pc' = "stream" /\ turn' = turn + 1 /\ fed' = <<>>
    /\ response' = <<>>
    /\ chunk_response' = <<>>
    /\ UNCHANGED <<mode, user_id, chunk, items, turnLog, dispatched, calls, report, error>>
    /\ UNCHANGED auxVars

\* variant: response and chunk_response are initialised once, before the loop
CliTranscribeKeepsReply ==
    /\ mode = "cli" /\ pc = "cli_transcribe"
    /\ \E q \in Utterances :
          /\ turn < MaxTurns \/ IsStop(q)
          /\ query' = q
          /\ long_transcript' = long_transcript \o UserLine(q)
          /\ IF IsStop(q)
                THEN pc' = "save" /\ UNCHANGED <<turn, fed>>
                ELSE pc' = "stream" /\ turn' = turn + 1 /\ fed' = <<>>
    /\ UNCHANGED <<response, chunk_response>>
    /\ UNCHANGED <<mode, user_id, chunk, items, turnLog, dispatched, calls, report, error>>
    /\ UNCHANGED auxVars

\* CLI.py 77-83: transcribe one utterance, log it, reset the accumulators and
\* either leave the loop on "stop" or open the next turn
CliTranscribe ==
    /\ mode = "cli" /\ pc = "cli_transcribe"
    /\ \E q \in Utterances :
          /\ turn < MaxTurns \/ IsStop(q)
          /\ query' = q
          /\ long_transcript' = long_transcript \o UserLine(q)
          /\ IF IsStop(q)
                THEN pc' = "save" /\ UNCHANGED <<turn, fed>>
                ELSE pc' = "stream" /\ turn' = turn + 1 /\ fed' = <<>>
    /\ response' = <<>>
    /\ chunk_response' = <<>>
    /\ UNCHANGED <<mode, user_id, chunk, items, turnLog, dispatched, calls, report, error>>
    /\ UNCHANGED auxVars

\* server.py 88-95, CLI.py 83-90: one iteration of the loop over converse()
StreamItem ==
    /\ pc = "stream"
    /\ items < MaxItems
    /\ \E item \in StreamItems, spoken \in BOOLEAN :
          /\ chunk' = item
          /\ items' = items + 1
          /\ IF IsAIMessage(item)
                THEN LET cr == chunk_response \o item.content
                         r  == response \o item.content
                     IN  /\ fed' = fed \o item.content
                         /\ response' = r
                         /\ IF SentenceEnd(r)
                               THEN /\ dispatched' = Append(dispatched,
                                          [turn |-> turn, text |-> cr, ok |-> spoken])
                                    /\ IF spoken
                                          THEN /\ chunk_response' = <<>>
                                               /\ UNCHANGED <<pc, error>>
                                          ELSE /\ chunk_response' = cr
                                               /\ Raise("speak")
                               ELSE /\ spoken
                                    /\ chunk_response' = cr
                                    /\ UNCHANGED <<dispatched, pc, error>>
                ELSE /\ spoken
                     /\ UNCHANGED <<fed, response, chunk_response, dispatched, pc, error>>
    /\ UNCHANGED <<mode, user_id, query, long_transcript, turn, turnLog, calls, report>>
    /\ UNCHANGED auxVars

\* the generator returned by converse() raises instead of yielding
StreamRaise ==
    /\ pc = "stream"
    /\ Raise("converse")
    /\ UNCHANGED <<mode, user_id, calls, report>>
    /\ UNCHANGED loopVars
    /\ UNCHANGED auxVars

\* server.py 97, CLI.py 91: the stream is exhausted, the reply is logged
StreamEnd ==
    /\ pc = "stream"
    /\ long_transcript' = long_transcript \o AILine(response)
    /\ turnLog' = Append(turnLog, [user |-> query, reply |-> fed])
    /\ pc' = IF mode = "ws" THEN "save" ELSE "cli_transcribe"
    /\ UNCHANGED <<mode, user_id, query, response, chunk_response, chunk, items,
                   turn, fed, dispatched, calls, report, error>>
    /\ UNCHANGED auxVars

\* variant: a failed call of the finalizer is made again
FinalizeRetrying(at, call, next) ==
    /\ pc = at
    /\ calls' = Append(calls, call)
    /\ \E ok \in BOOLEAN : pc' = IF ok THEN next ELSE at
    /\ UNCHANGED error
    /\ UNCHANGED <<mode, user_id>>
    /\ UNCHANGED loopVars
    /\ UNCHANGED auxVars

\* one external call of the finalizer; an exception is not caught
Finalize(at, call, next) ==
    /\ pc = at
    /\ calls' = Append(calls, call)
    /\ \E ok \in BOOLEAN :
          IF ok THEN pc' = next /\ UNCHANGED error ELSE Raise(call.op)
    /\ UNCHANGED <<mode, user_id>>
    /\ UNCHANGED loopVars
    /\ UNCHANGED auxVars

\* server.py 98, CLI.py 93
SaveConversation ==
    /\ Finalize("save", Call("save_conversation", user_id, Today, long_transcript), "index")
    /\ UNCHANGED report

\* server.py 99, CLI.py 94
IndexTranscript ==
    /\ Finalize("index", Call("add_document", user_id, "", long_transcript), "report")
    /\ UNCHANGED report

\* server.py 101, CLI.py 95
CreateReport ==
    /\ Finalize("report", Call("create_report", user_id, "", <<>>), "deliver")
    /\ \E r \in Reports : report' = IF pc' = "deliver" THEN r ELSE report

\* server.py 103 (websocket.send_text), CLI.py 96 (print)
DeliverReport ==
    /\ Finalize("deliver", Call("deliver", "", "", <<report>>), "index_report")
    /\ mode = "cli" => pc' = "index_report"
    /\ UNCHANGED report

\* server.py 104-106, CLI.py 97-98
IndexReport ==
    /\ Finalize("index_report", Call("add_document", user_id, "", <<report>>), "done")
    /\ UNCHANGED report

Next ==
    \/ WsTranscribe
    \/ CliTranscribe
    \/ StreamItem
    \/ StreamRaise
    \/ StreamEnd
    \/ SaveConversation
    \/ IndexTranscript
    \/ CreateReport
    \/ DeliverReport
    \/ IndexReport

Spec == Init /\ [][Next]_vars

TypeOK ==
    /\ mode \in {"ws", "cli"}
    /\ pc \in {"ws_transcribe", "cli_transcribe", "stream", "save", "index", "report",
               "deliver", "index_report", "done", "crashed"}
    /\ items \in 0..MaxItems
    /\ turn \in 0..MaxTurns

\* ----------------------------------------------------------------- claims
RECURSIVE ChunksOfTurn(_, _)
\* the texts handed to synthesis during turn t, joined in dispatch order
ChunksOfTurn(d, t) ==
    IF d = <<>> THEN <<>>
    ELSE (IF Head(d).turn = t THEN Head(d).text ELSE <<>>) \o ChunksOfTurn(Tail(d), t)

RECURSIVE RenderTurns(_)
\* the user line and the reply line of every completed turn, in turn order
RenderTurns(log) ==
    IF log = <<>> THEN <<>>
    ELSE UserLine(Head(log).user) \o AILine(Head(log).reply) \o RenderTurns(Tail(log))

LastChar(s) == s[Len(s)]
ItemStep == items' = items + 1
Emitted == Len(dispatched') = Len(dispatched) + 1
StreamEndStep == pc = "stream" /\ pc' \in {"save", "cli_transcribe"}
HandlerEnded == pc \in {"done", "crashed"}
CalledOp(op) == \E i \in DOMAIN calls : calls[i].op = op

\* C1: once the reply stream of a turn has ended, the chunks dispatched to
\* synthesis during that turn, joined in dispatch order, equal the assistant
\* text the stream yielded: nothing lost, duplicated or reordered.
C1_ChunksCoverReply ==
    (turn >= 1 /\ pc \notin {"stream", "crashed"}) => ChunksOfTurn(dispatched, turn) = fed

\* C2 (as stated): processing an assistant fragment emits a chunk if and only
\* if the last character of the reply accumulated so far is one of . ! ? : ;
C2_EmitIffLastCharBoundary ==
    [][(ItemStep /\ chunk'.kind = "AIMessage") =>
          (Emitted <=> (response' # <<>> /\ LastChar(response') \in {".", "!", "?", ":", ";"}))]_vars

\* C2 (amended): processing an assistant fragment emits a chunk, in that very
\* step, if and only if the reply accumulated so far ends with one of
\* . ! ? : ; or with one of them followed by a single final newline; the
\* emitted chunk is the text pending since the previous emission.
C2_EmitIffBoundaryOrBoundaryNewline ==
    [][(ItemStep /\ chunk'.kind = "AIMessage") =>
          LET r == response'
              n == Len(r)
              atEnd == n >= 1 /\ r[n] \in {".", "!", "?", ":", ";"}
              beforeNewline == n >= 2 /\ r[n] = "\n" /\ r[n - 1] \in {".", "!", "?", ":", ";"}
          IN  /\ Emitted <=> (atEnd \/ beforeNewline)
              /\ Emitted => dispatched'[Len(dispatched')].text = chunk_response \o chunk'.content
              /\ ~Emitted => dispatched' = dispatched]_vars

C2_Witness ==
    /\ pc = "stream" /\ chunk.kind = "AIMessage"
    /\ response = <<"a", ".", "\n">>
    /\ Len(dispatched) = 1 /\ dispatched[1].text = <<"a", ".", "\n">>
    /\ chunk_response = <<>>

\* C3: when the reply stream ends, a non-empty pending_chunk is dispatched as
\* exactly one final chunk holding the leftover text, and an empty one
\* dispatches nothing.
C3_FlushAtStreamEnd ==
    [][StreamEndStep =>
          IF chunk_response # <<>>
             THEN /\ Emitted
                  /\ dispatched'[Len(dispatched')].text = chunk_response
                  /\ SubSeq(dispatched', 1, Len(dispatched)) = dispatched
             ELSE dispatched' = dispatched]_vars

\* C4: a failed synthesis dispatch does not abort the turn.
C4_SpeakFailureDoesNotAbort ==
    (\E i \in DOMAIN dispatched : ~dispatched[i].ok) => pc # "crashed"

\* C5: in a finalization pass that has ended, add_document and create_report
\* were attempted whatever happened to save_conversation.
C5_SideEffectsIndependent ==
    (HandlerEnded /\ CalledOp("save_conversation")) =>
        CalledOp("add_document") /\ CalledOp("create_report")

\* C6: after the reply stream raised, the session can still proceed and the
\* text accumulated so far is kept as the reply of the failed turn.
C6_PartialReplyPreserved ==
    error = "converse" =>
        /\ pc # "crashed"
        /\ Len(turnLog) = turn /\ turnLog[turn].reply = fed

\* C7: at most one turn is active: an utterance is requested only when every
\* started reply stream has ended, and a chunk is dispatched only for the one
\* stream that has not ended.
C7_OneTurnAtATime ==
    [][/\ (turn - Len(turnLog))' \in {0, 1}
       /\ (long_transcript' # long_transcript /\ turnLog' = turnLog) => Len(turnLog) = turn
       /\ turn' # turn => (turn' = turn + 1 /\ Len(turnLog) = turn)
       /\ dispatched' # dispatched =>
             /\ Emitted
             /\ Len(turnLog) = turn - 1
             /\ turn' = turn
             /\ dispatched'[Len(dispatched')].turn = turn]_vars

C7_Witness ==
    /\ mode = "cli" /\ turn = 2 /\ Len(turnLog) = 1
    /\ Len(dispatched) = 2 /\ dispatched[1].turn = 1 /\ dispatched[2].turn = 2

\* C8: a reply-stream item that is not an AIMessage changes neither
\* accumulator and emits nothing; while a stream is open the accumulators and
\* the dispatch log change only on AIMessage items.
C8_OnlyAssistantContentFeedsChunker ==
    [][/\ (ItemStep /\ chunk'.kind # "AIMessage") =>
             UNCHANGED <<response, chunk_response, dispatched>>
       /\ (pc = "stream" /\ <<response, chunk_response, dispatched>>' #
                            <<response, chunk_response, dispatched>>) =>
             (ItemStep /\ chunk'.kind = "AIMessage")]_vars

C8_Witness ==
    /\ pc = "stream" /\ chunk.kind = "ToolMessage" /\ chunk.content = <<".">>
    /\ response = <<"a">> /\ chunk_response = <<"a">> /\ dispatched = <<>>

\* C9 (as stated): the transcript handed to save_conversation is the date
\* line followed by the user line and the reply line of every turn, in order.
C9_TranscriptIsDateAndTurns ==
    \A i \in DOMAIN calls :
        calls[i].op = "save_conversation" =>
            calls[i].text = DateLine(Today) \o RenderTurns(turnLog)

\* C9 (amended): the transcript handed to save_conversation is the date line
\* followed by the user line and the reply line of every turn in turn order,
\* each reply being the text of that turn's stream only; in the terminal
\* session the user line of the exit utterance follows, without a reply line.
C9_TranscriptIsDateTurnsAndExit ==
    \A i \in DOMAIN calls :
        calls[i].op = "save_conversation" =>
            /\ calls[i].text = DateLine(Today) \o RenderTurns(turnLog)
                                  \o (IF mode = "cli" THEN UserLine(query) ELSE <<>>)
            /\ Len(turnLog) = turn
            /\ mode = "cli" => Lower(Strip(query)) = <<"s", "t", "o", "p">>

C9_Witness ==
    /\ mode = "cli" /\ CalledOp("save_conversation")
    /\ Len(turnLog) = 2 /\ turnLog[1].reply # <<>> /\ turnLog[2].reply # <<>>

\* C10: the finalizer's external calls are a prefix of: save the transcript,
\* index the transcript, request the report, deliver it, index it; each is
\* made at most once, under the session's identity, the saved and the indexed
\* transcript are the same text and the delivered and indexed report are the
\* report that create_report returned.
FinalizerOrder ==
    <<"save_conversation", "add_document", "create_report", "deliver", "add_document">>

UtteranceStep == long_transcript' # long_transcript /\ turnLog' = turnLog
FinalizerPcs == {"save", "index", "report", "deliver", "index_report", "done"}

C11_StopEndsSession ==
    [][mode = "cli" =>
          /\ UtteranceStep =>
                IF Lower(Strip(query')) = <<"s", "t", "o", "p">>
                   THEN pc' = "save" /\ turn' = turn /\ calls' = <<>>
                   ELSE pc' = "stream" /\ turn' = turn + 1 /\ calls' = <<>>
          /\ (pc \in FinalizerPcs \/ calls # <<>>) =>
                /\ UNCHANGED <<query, long_transcript, turn, items, dispatched>>
                /\ pc' \in FinalizerPcs \cup {"crashed"}
                /\ Lower(Strip(query)) = <<"s", "t", "o", "p">>
          /\ Cardinality({i \in DOMAIN calls' : calls'[i].op = "save_conversation"}) <= 1]_vars

C11_Witness ==
    /\ mode = "cli" /\ pc = "done" /\ turn = 1
    /\ query = <<" ", "S", "t", "o", "p">>
    /\ Len(calls) = 5

\* ======================================================================
\* DatabaseManager (src/server/database/database.py)
\* ======================================================================
\* A Python value bound to a statement: its type and its text.
StrV(v) == [type |-> "str", val |-> v]
IntV(v) == [type |-> "int", val |-> v]
DateV(v) == [type |-> "date", val |-> v]

\* the callers' arguments: session() passes random.randint(300, 2000) as the
\* identity when none is typed in, and datetime.now().date() as the date
DbUsers == {StrV("u1"), IntV("300")}
DbDates == {DateV("2026-01-01")}
DbTexts == {StrV("t1"), StrV("t2")}
DbIds == 1..(MaxSaves + 1)

\* sqlite3's default adapter binds a datetime.date as its isoformat() text
AdaptParam(v) == IF v.type = "date" THEN StrV(v.val) ELSE v

\* column affinity: TEXT stores an integer as its decimal text; DATE has
\* NUMERIC affinity, which keeps a text that is not a well-formed number
StoredValue(column, v) ==
    LET a == AdaptParam(v)
    IN  IF column \in {"user_id", "transcript"} /\ a.type = "int" THEN StrV(a.val) ELSE a

Max(S) == CHOOSE x \in S : \A y \in S : y <= x

\* variant: id INTEGER PRIMARY KEY without AUTOINCREMENT (largest rowid + 1)
NewRowIdReusing(rows, seq) == Max(DOMAIN rows \cup {0}) + 1

\* id INTEGER PRIMARY KEY AUTOINCREMENT: one more than the largest id the
\* table ever held
NewRowId(rows, seq) == Max(DOMAIN rows \cup {seq}) + 1

Without(rows, id) == [i \in DOMAIN rows \ {id} |-> rows[i]]
With(rows, id, row) == [i \in DOMAIN rows \cup {id} |-> IF i = id THEN row ELSE rows[i]]

\* database.py 56-79
DbSave(u, d, t) ==
    /\ db_seq < MaxSaves
    /\ LET id == NewRowId(db_rows, db_seq)
           row == [user_id |-> StoredValue("user_id", u),
                   session_date |-> StoredValue("session_date", d),
                   transcript |-> StoredValue("transcript", t)]
       IN  /\ db_rows' = With(db_rows, id, row)
           /\ db_seq' = IF id > db_seq THEN id ELSE db_seq
           /\ db_ret' = [op |-> "save", id |-> id, ok |-> TRUE, rows |-> {}]
           /\ db_saves' = Append(db_saves, [id |-> id, user_id |-> u, session_date |-> d,
                                            transcript |-> t])
    /\ UNCHANGED notDb

\* database.py 115-144: the row, or None when there is none
DbGetById(id) ==
    /\ db_ret' = [op |-> "get", id |-> id, ok |-> id \in DOMAIN db_rows,
                  rows |-> IF id \in DOMAIN db_rows THEN {db_rows[id]} ELSE {}]
    /\ UNCHANGED <<db_rows, db_seq, db_saves>>
    /\ UNCHANGED notDb

\* database.py 81-113 (LIMIT 10 exceeds the rows of a run)
DbGetByUser(u) ==
    /\ db_ret' = [op |-> "by_user", id |-> 0, ok |-> TRUE,
                  rows |-> {db_rows[i] : i \in {j \in DOMAIN db_rows :
                                                   db_rows[j].user_id = StoredValue("user_id", u)}}]
    /\ UNCHANGED <<db_rows, db_seq, db_saves>>
    /\ UNCHANGED notDb

\* variant: deleted = cursor.rowcount >= 0
DbDeleteAlwaysTrue(id) ==
    /\ db_rows' = Without(db_rows, id)
    /\ db_ret' = [op |-> "delete", id |-> id, ok |-> TRUE, rows |-> {}]
    /\ UNCHANGED <<db_seq, db_saves>>
    /\ UNCHANGED notDb

\* database.py 146-164
DbDelete(id) ==
    /\ db_rows' = Without(db_rows, id)
    /\ db_ret' = [op |-> "delete", id |-> id, ok |-> id \in DOMAIN db_rows, rows |-> {}]
    /\ UNCHANGED <<db_seq, db_saves>>
    /\ UNCHANGED notDb

\* database.py 166-193: total_conversations (the other figures are not kept)
DbStats ==
    /\ db_ret' = [op |-> "stats", id |-> Cardinality(DOMAIN db_rows), ok |-> TRUE, rows |-> {}]
    /\ UNCHANGED <<db_rows, db_seq, db_saves>>
    /\ UNCHANGED notDb

DbSaveAny == \E u \in DbUsers, d \in DbDates, t \in DbTexts : DbSave(u, d, t)
DbGetAny == \E id \in DbIds : DbGetById(id)
DbGetByUserAny == \E u \in DbUsers : DbGetByUser(u)
DbDeleteAny == \E id \in DbIds : DbDelete(id)

DbNext ==
    \/ DbSaveAny
    \/ DbGetAny
    \/ DbGetByUserAny
    \/ DbDeleteAny
    \/ DbStats

allVars == <<vars, auxVars>>

DbSpecInit == LoopIdle /\ AuxInit

DbSpec == DbSpecInit /\ [][DbNext]_allVars

SavedAs(id) == {db_saves[i] : i \in {j \in DOMAIN db_saves : db_saves[j].id = id}}

\* C14 (as stated): get_conversation_by_id on an id that save_conversation
\* returned yields the user identity, date and transcript exactly as passed.
C14_RoundTripExact ==
    (db_ret.op = "get" /\ db_ret.ok) =>
        \A sv \in SavedAs(db_ret.id), r \in db_ret.rows :
            /\ r.user_id = sv.user_id
            /\ r.session_date = sv.session_date
            /\ r.transcript = sv.transcript

\* C14 (amended): the record found under an id that save_conversation
\* returned holds the transcript exactly as passed, the user identity as text
\* (an integer identity as its decimal text) and the session date as the
\* ISO-format text of the date, whatever was saved or deleted under other
\* ids; the ids returned are pairwise distinct and never reused after a delete.
RowAsText(sv) ==
    [user_id |-> [type |-> "str", val |-> sv.user_id.val],
     session_date |-> [type |-> "str", val |-> sv.session_date.val],
     transcript |-> sv.transcript]

C14_RoundTripAsText ==
    /\ \A i, j \in DOMAIN db_saves : i # j => db_saves[i].id # db_saves[j].id
    /\ \A i \in DOMAIN db_saves : db_saves[i].id = i /\ db_saves[i].id <= db_seq
    /\ \A id \in DOMAIN db_rows : \E sv \in SavedAs(id) : db_rows[id] = RowAsText(sv)
    /\ (db_ret.op = "get" /\ db_ret.ok) =>
          \E sv \in SavedAs(db_ret.id) : db_ret.rows = {RowAsText(sv)}
    /\ db_ret.op = "save" =>
          db_ret.id \in DOMAIN db_rows /\ db_ret.id = db_saves[Len(db_saves)].id

C14_Witness ==
    /\ db_ret.op = "get" /\ db_ret.ok /\ db_ret.id = 3
    /\ Len(db_saves) = 3 /\ DOMAIN db_rows = {1, 3}
    /\ db_saves[3].user_id.type = "int"

\* C15: a stored row never changes; it disappears only by
\* delete_conversation of its own id, which returns true exactly when the row
\* existed and removes nothing else; get_conversation_by_id returns None for
\* an id that is deleted or was never assigned.
C15_OnlyDeleteAffectsRows ==
    [][/\ \A id \in DOMAIN db_rows :
             \/ id \in DOMAIN db_rows' /\ db_rows'[id] = db_rows[id]
             \/ /\ db_ret'.op = "delete" /\ db_ret'.id = id /\ db_ret'.ok
                /\ DOMAIN db_rows' = DOMAIN db_rows \ {id}
       /\ db_ret'.op = "delete" =>
             /\ db_ret'.ok <=> db_ret'.id \in DOMAIN db_rows
             /\ db_ret'.id \notin DOMAIN db_rows'
             /\ ~db_ret'.ok => db_rows' = db_rows
       /\ db_ret'.op = "get" =>
             /\ db_rows' = db_rows
             /\ db_ret'.ok <=> db_ret'.id \in DOMAIN db_rows
             /\ ~db_ret'.ok => db_ret'.rows = {}
       /\ db_ret'.op \in {"by_user", "stats"} => db_rows' = db_rows]_allVars

C15_Witness ==
    /\ db_ret.op = "get" /\ ~db_ret.ok /\ db_ret.id = 1
    /\ db_seq = 2 /\ DOMAIN db_rows = {2}

\* ======================================================================
\* listen_print_loop / transcribe (src/server/services/stt_service.py)
\* ======================================================================
\* a StreamingRecognizeResponse: its results, each with its alternatives
\* (transcripts, best first) and its is_final flag
Result(alts, final) == [alternatives |-> alts, is_final |-> final]
SttResponses ==
    { [results |-> <<>>],
      [results |-> <<Result(<<>>, TRUE)>>],
      [results |-> <<Result(<<"he", "hi">>, FALSE)>>],
      [results |-> <<Result(<<"hello", "hallo">>, TRUE), Result(<<"x">>, FALSE)>>],
      [results |-> <<Result(<<"stop">>, TRUE)>>] }

RECURSIVE SeqsUpTo(_, _)
SeqsUpTo(S, n) ==
    IF n = 0 THEN { <<>> }
    ELSE LET R == SeqsUpTo(S, n - 1)
         IN  R \cup { Append(q, x) : q \in { r \in R : Len(r) = n - 1 }, x \in S }

NoneV == [type |-> "NoneType", val |-> "None"]

\* stt_service.py 178-187: the recognizer is started on the microphone stream
SttInit ==
    /\ stt_all \in SeqsUpTo(SttResponses, MaxResponses)
    /\ stt_in = stt_all
    /\ stt_pc = "listening"
    /\ stt_ret = NoValue

\* stt_service.py 137-147: one iteration of the loop over the responses
ListenStep ==
    /\ stt_pc = "listening" /\ stt_in # <<>>
    /\ LET resp == Head(stt_in)
       IN  /\ stt_in' = Tail(stt_in)
           /\ IF resp.results = <<>>
                 THEN UNCHANGED <<stt_pc, stt_ret>>
                 ELSE LET result == resp.results[1]
                      IN  IF result.alternatives = <<>>
                             THEN UNCHANGED <<stt_pc, stt_ret>>
                             ELSE IF result.is_final
                                     THEN /\ stt_pc' = "returned"
                                          /\ stt_ret' = [type |-> "str",
                                                         val |-> result.alternatives[1]]
                                     ELSE UNCHANGED <<stt_pc, stt_ret>>
    /\ UNCHANGED <<stt_all, notStt>>

\* stt_service.py 137, 148: the responses are exhausted and the function
\* falls off its end, which returns None
ListenEnd ==
    /\ stt_pc = "listening" /\ stt_in = <<>>
    /\ stt_pc' = "returned"
    /\ stt_ret' = NoneV
    /\ UNCHANGED <<stt_in, stt_all, notStt>>

SttNext ==
    \/ ListenStep
    \/ ListenEnd

SttSpecInit ==
    LoopIdle /\ DbInit /\ SttInit /\ GraphInit /\ WsIdle /\ ConcIdle /\ MicIdle

SttSpec == SttSpecInit /\ [][SttNext]_allVars

\* C18: every call returns a string, the top alternative of the first
\* response whose first result is final and has alternatives, whatever the
\* response sequence.
IsFinalText(resp) ==
    /\ resp.results # <<>>
    /\ resp.results[1].alternatives # <<>>
    /\ resp.results[1].is_final

C18_ReturnsOneFinalString ==
    stt_pc = "returned" =>
        /\ stt_ret.type = "str"
        /\ \E i \in DOMAIN stt_all :
              /\ IsFinalText(stt_all[i])
              /\ \A j \in 1..(i - 1) : ~IsFinalText(stt_all[j])
              /\ stt_ret.val = stt_all[i].results[1].alternatives[1]

\* ======================================================================
\* The analyzer graph and the vector store
\* (src/server/services/analyzer_tutor.py)
\* ======================================================================
TopK == 5
GraphUsers == {"u1", "u2"}
DocTexts == {"t1", "t2"}

Message(type, content, tool_calls) ==
    [type |-> type, content |-> content, tool_calls |-> tool_calls]

\* the tool calls a model response can carry: the arguments are the model's
ToolCallsOfModel ==
    SeqsUpTo([query : {"history"}, user_id : GraphUsers], MaxToolCalls)

\* analyzer_tutor.py 62-68: one document under a fresh uuid
AddDocument(page_content, user) ==
    /\ g_node = "idle"
    /\ Cardinality(vs_docs) < MaxDocs
    /\ vs_docs' = vs_docs \cup
          {[id |-> Cardinality(vs_docs) + 1, page_content |-> page_content, namespace |-> user]}
    /\ UNCHANGED <<g_node, g_user, g_messages, g_calls, g_report, notGraph>>

\* analyzer_tutor.py 182-192: analyzer.invoke with the prompt and the user
InvokeAnalyzer(user) ==
    /\ g_node = "idle"
    /\ g_node' = "query_or_respond"
    /\ g_user' = user
    /\ g_messages' = <<Message("human", "PROMPT", <<>>)>>
    /\ UNCHANGED <<vs_docs, g_calls, g_report, notGraph>>

\* analyzer_tutor.py 105-108: every tool call gets the user of the state
WithStateUser(tool_calls, user) ==
    [i \in DOMAIN tool_calls |-> [tool_calls[i] EXCEPT !.user_id = user]]

\* langgraph tools_condition on the edges of analyzer_tutor.py 172-176
ToolsCondition(messages) ==
    IF messages[Len(messages)].tool_calls # <<>> THEN "tools" ELSE "end"

\* analyzer_tutor.py 99-110 and the conditional edge 172-176; the State
\* channel "messages" has no reducer, so the returned list replaces it
QueryOrRespond ==
    /\ g_node = "query_or_respond"
    /\ \E tcs \in ToolCallsOfModel :
          LET resp == Message("ai", IF tcs = <<>> THEN "answer" ELSE "",
                              WithStateUser(tcs, g_user))
          IN  /\ g_messages' = <<resp>>
              /\ g_node' = ToolsCondition(<<resp>>)
              /\ g_report' = IF ToolsCondition(<<resp>>) = "end" THEN resp.content
                                                                   ELSE g_report
    /\ UNCHANGED <<vs_docs, g_user, g_calls, notGraph>>

\* Milvus.similarity_search(query, k, param, expr, timeout, **kwargs): the
\* filter is the expr argument; other keyword arguments do not filter
Matches(doc, expr) == expr = "none" \/ doc.namespace = expr

SimilaritySearch(docs, k, expr, kwargs) ==
    LET hits == {doc \in docs : Matches(doc, expr)}
    IN  IF Cardinality(hits) <= k THEN {hits}
        ELSE {h \in SUBSET hits : Cardinality(h) = k}

\* analyzer_tutor.py 82-96: the namespace filter is passed as
\* search_kwargs={"expr": ...}, the expr argument is left at its default
RetrieveOutcomes(q, user) ==
    SimilaritySearch(vs_docs, TopK, "none", [search_kwargs |-> [expr |-> user]])

\* analyzer_tutor.py 114 (ToolNode([retrieve])): every tool call of the last
\* message is executed; an exception inside retrieve becomes an error text
Tools ==
    /\ g_node = "tools"
    /\ LET tcs == g_messages[Len(g_messages)].tool_calls
       IN  \E failed \in [DOMAIN tcs -> BOOLEAN], outs \in [DOMAIN tcs -> SUBSET vs_docs] :
              /\ \A i \in DOMAIN tcs :
                    IF failed[i] THEN outs[i] = {}
                    ELSE outs[i] \in RetrieveOutcomes(tcs[i].query, tcs[i].user_id)
              /\ g_calls' = g_calls \o
                    [i \in DOMAIN tcs |-> [user_id |-> tcs[i].user_id,
                                           failed |-> failed[i],
                                           returned |-> outs[i]]]
              /\ g_messages' = [i \in DOMAIN tcs |-> Message("tool", "retrieved", <<>>)]
    /\ g_node' = "generate"
    /\ UNCHANGED <<vs_docs, g_user, g_report, notGraph>>

\* analyzer_tutor.py 118-162 and the edge to END at 178
Generate ==
    /\ g_node = "generate"
    /\ g_messages' = <<Message("ai", "analysis", <<>>)>>
    /\ g_report' = "analysis"
    /\ g_node' = "end"
    /\ UNCHANGED <<vs_docs, g_user, g_calls, notGraph>>

AddAnyDocument == \E t \in DocTexts, u \in GraphUsers : AddDocument(t, u)
InvokeForAnyUser == \E u \in GraphUsers : InvokeAnalyzer(u)

GraphNext ==
    \/ AddAnyDocument
    \/ InvokeForAnyUser
    \/ QueryOrRespond
    \/ Tools
    \/ Generate

GraphSpecInit == LoopIdle /\ AuxInit

GraphSpec == GraphSpecInit /\ [][GraphNext]_allVars

\* C16: a report is returned only after retrieve has been executed at least
\* once in that invocation.
C16_ReportAfterRetrieval ==
    g_node = "end" => Len(g_calls) >= 1

\* C17: every retrieve call of create_report(u) is issued with user_id = u
\* and returns at most 5 documents, all indexed under namespace u.
C17_RetrievalScopedToUser ==
    \A i \in DOMAIN g_calls :
        /\ g_calls[i].user_id = g_user
        /\ Cardinality(g_calls[i].returned) <= 5
        /\ \A doc \in g_calls[i].returned : doc.namespace = g_user

\* ======================================================================
\* The WebSocket handler with its transport and its voice tables
\* (src/server/server.py 70-106, src/server/services/tts_service.py 18-88)
\* ======================================================================
voices ==
    [l \in {"Mandarin", "French", "Spanish", "Japanese", "German", "Italian", "English"} |->
        CASE l = "Mandarin" -> "bhJUNIXWQQ94l8eI2VUf"
          [] l = "French"   -> "sANWqF1bCMzR6eyZbCGw"
          [] l = "Spanish"  -> "Nh2zY9kknu6z4pZy6FhD"
          [] l = "Japanese" -> "cgSgspJ2msm6clMCkdW9"
          [] l = "German"   -> "z1EhmmPwF0ENGYE8dBE6"
          [] l = "Italian"  -> "gfKKsLN1k0oYYN9n2dXX"
          [] l = "English"  -> "JBFqnCBsd6RMkjVDRZzb"]

language_codes ==
    [c \in {"en-UK", "fr-FR", "es-ES", "cmn-HANS-CN", "ja-JP", "German", "Italian"} |->
        CASE c = "en-UK"       -> "English"
          [] c = "fr-FR"       -> "French"
          [] c = "es-ES"       -> "Spanish"
          [] c = "cmn-HANS-CN" -> "Mandarin"
          [] c = "ja-JP"       -> "Japanese"
          [] c = "German"      -> "de-DE"
          [] c = "Italian"     -> "it-IT"]

\* the values a client can put in the language_code query parameter
LanguageCodeInputs == DOMAIN language_codes \cup {"de-DE", "it-IT", "xx-XX"}

AudioFrames == {<<1>>, <<2>>}
WsFragments == {<<"a">>, <<"a", ".">>}
WsReport == <<"r">>

\* variant: a language without a voice is spoken with the default voice
VoiceOrDefault(language) ==
    [found |-> TRUE,
     voice |-> IF language \in DOMAIN voices THEN voices[language] ELSE voices["English"]]

\* tts_service.py 85: voices[language], a KeyError when the key is missing
Voice(language) ==
    IF language \in DOMAIN voices
        THEN [found |-> TRUE, voice |-> voices[language]]
        ELSE [found |-> FALSE, voice |-> "KeyError"]

\* variant: the buffer holds the newest frame only
AccumulateNewest(audio_bytes, audio_chunk) == audio_chunk

\* server.py 78: audio_bytes += audio_chunk
Accumulate(audio_bytes, audio_chunk) == audio_bytes \o audio_chunk

\* a send reaches the client only over a transport open on both sides
Delivered == ws_app = "connected" /\ ws_client = "connected"

WsRaise(what) == ws_pc' = "crashed" /\ ws_error' = what

\* server.py 70-76: the coroutine of accept() is created and never awaited,
\* so the server side of the transport stays in its connecting state
WsConnect ==
    /\ ws_pc = "idle"
    /\ \E lc \in LanguageCodeInputs : ws_lang' = lc
    /\ ws_client' = "connected"
    /\ ws_pc' = "receive"
    /\ UNCHANGED <<ws_app, ws_frames, ws_audio, ws_stt, ws_response, ws_chunk,
                   ws_items, ws_out, ws_error, notWs>>

\* server.py 77-78: one frame from iter_bytes()
WsReceive ==
    /\ ws_pc = "receive" /\ ws_client = "connected"
    /\ Len(ws_frames) < MaxFrames
    /\ \E audio_chunk \in AudioFrames :
          /\ ws_frames' = Append(ws_frames, audio_chunk)
          /\ ws_audio' = Accumulate(ws_audio, audio_chunk)
    /\ UNCHANGED <<ws_pc, ws_lang, ws_app, ws_client, ws_stt, ws_response, ws_chunk,
                   ws_items, ws_out, ws_error, notWs>>

\* server.py 77: a receive on a transport that was never accepted can be
\* refused by the framework; the exception is not caught
WsReceiveRefused ==
    /\ ws_pc = "receive" /\ ws_app # "connected"
    /\ WsRaise("receive")
    /\ UNCHANGED <<ws_lang, ws_app, ws_client, ws_frames, ws_audio, ws_stt,
                   ws_response, ws_chunk, ws_items, ws_out, notWs>>

\* server.py 77: iter_bytes() ends when the client has disconnected
WsDisconnect ==
    /\ ws_pc = "receive" /\ ws_client = "connected"
    /\ ws_client' = "disconnected"
    /\ ws_pc' = "transcribe"
    /\ UNCHANGED <<ws_lang, ws_app, ws_frames, ws_audio, ws_stt, ws_response,
                   ws_chunk, ws_items, ws_out, ws_error, notWs>>

\* server.py 80-86: ws_transcribe on the collected buffer
WsTranscribeCall ==
    /\ ws_pc = "transcribe"
    /\ ws_stt' = Append(ws_stt, ws_audio)
    /\ ws_response' = <<>>
    /\ ws_chunk' = <<>>
    /\ ws_pc' = "converse"
    /\ UNCHANGED <<ws_lang, ws_app, ws_client, ws_frames, ws_audio, ws_items,
                   ws_out, ws_error, notWs>>

\* server.py 88: language_codes[language_code] is evaluated for the call of
\* converse(), before the first item of the stream
WsConverse ==
    /\ ws_pc = "converse"
    /\ IF ws_lang \in DOMAIN language_codes
          THEN ws_pc' = "stream" /\ UNCHANGED ws_error
          ELSE WsRaise("language_codes")
    /\ UNCHANGED <<ws_lang, ws_app, ws_client, ws_frames, ws_audio, ws_stt,
                   ws_response, ws_chunk, ws_items, ws_out, notWs>>

\* server.py 89-95 with ws_speak (tts_service.py 82-88) and send_bytes
WsStreamItem ==
    /\ ws_pc = "stream"
    /\ ws_items < MaxWsItems
    /\ ws_items' = ws_items + 1
    /\ \E content \in WsFragments, sent \in BOOLEAN :
          LET cr == ws_chunk \o content
              r  == ws_response \o content
              v  == Voice(language_codes[ws_lang])
          IN  /\ ws_response' = r
              /\ IF ~SentenceEnd(r)
                    THEN /\ sent
                         /\ ws_chunk' = cr
                         /\ UNCHANGED <<ws_out, ws_pc, ws_error>>
                    ELSE IF ~v.found
                    THEN /\ sent
                         /\ ws_chunk' = cr
                         /\ WsRaise("voices")
                         /\ UNCHANGED ws_out
                    ELSE /\ ws_out' = Append(ws_out,
                               [op |-> "send_bytes", text |-> cr,
                                language |-> language_codes[ws_lang], voice |-> v.voice,
                                delivered |-> Delivered /\ sent])
                         /\ IF sent
                               THEN ws_chunk' = <<>> /\ UNCHANGED <<ws_pc, ws_error>>
                               ELSE ws_chunk' = cr /\ WsRaise("send_bytes")
    /\ UNCHANGED <<ws_lang, ws_app, ws_client, ws_frames, ws_audio, ws_stt, notWs>>

\* server.py 97-101: the stream is exhausted; transcript, index and report
WsStreamEnd ==
    /\ ws_pc = "stream"
    /\ ws_pc' = "send_report"
    /\ UNCHANGED <<ws_lang, ws_app, ws_client, ws_frames, ws_audio, ws_stt,
                   ws_response, ws_chunk, ws_items, ws_out, ws_error, notWs>>

\* server.py 103-106: send_text(report)
WsSendReport ==
    /\ ws_pc = "send_report"
    /\ \E sent \in BOOLEAN :
          /\ ws_out' = Append(ws_out,
                [op |-> "send_text", text |-> WsReport, language |-> "", voice |-> "",
                 delivered |-> Delivered /\ sent])
          /\ IF sent THEN ws_pc' = "done" /\ UNCHANGED ws_error
                     ELSE WsRaise("send_text")
    /\ UNCHANGED <<ws_lang, ws_app, ws_client, ws_frames, ws_audio, ws_stt,
                   ws_response, ws_chunk, ws_items, notWs>>

WsNext ==
    \/ WsConnect
    \/ WsReceive
    \/ WsReceiveRefused
    \/ WsDisconnect
    \/ WsTranscribeCall
    \/ WsConverse
    \/ WsStreamItem
    \/ WsStreamEnd
    \/ WsSendReport

WsSpecInit == LoopIdle /\ AuxInit

WsSpec == WsSpecInit /\ [][WsNext]_allVars

RECURSIVE Flatten(_)
Flatten(seqs) == IF seqs = <<>> THEN <<>> ELSE Head(seqs) \o Flatten(Tail(seqs))

KeyErrors == {"language_codes", "voices"}
Synthesized == {i \in DOMAIN ws_out : ws_out[i].op = "send_bytes"}
AfterTranscribe == {"converse", "stream", "send_report", "done"}

\* C13 (as stated): a missing language or voice key fails at a synthesis
\* dispatch, never before the first dispatch of the turn, and no chunk is
\* synthesized with a substitute voice.
C13_KeyFailureAtDispatch ==
    /\ ws_error \in KeyErrors => ws_chunk # <<>> /\ SentenceEnd(ws_response)
    /\ \A i \in Synthesized : ws_out[i].language \in DOMAIN voices

\* C13 (amended): a code without an entry in language_codes fails when the
\* reply stream is opened, before any item and any dispatch; a code whose
\* entry names no voice fails at the first dispatch; every synthesized chunk
\* carries the voice the two tables give for the session's code.
C13_KeyFailureAtOpenOrDispatch ==
    /\ ws_error = "language_codes" =>
          /\ ws_lang \notin DOMAIN language_codes
          /\ ws_items = 0 /\ ws_response = <<>> /\ Synthesized = {}
    /\ ws_error = "voices" =>
          /\ ws_lang \in DOMAIN language_codes
          /\ language_codes[ws_lang] \notin DOMAIN voices
          /\ ws_chunk # <<>> /\ SentenceEnd(ws_response) /\ Synthesized = {}
    /\ ws_lang \notin DOMAIN language_codes => ws_pc \notin {"stream", "send_report", "done"}
    /\ \A i \in Synthesized :
          /\ ws_lang \in DOMAIN language_codes
          /\ ws_out[i].language = language_codes[ws_lang]
          /\ ws_out[i].language \in DOMAIN voices
          /\ ws_out[i].voice = voices[ws_out[i].language]

C13_Witness ==
    /\ ws_error = "language_codes" /\ ws_lang = "de-DE" /\ Len(ws_stt) = 1

\* C19: ws_transcribe is called once, after iter_bytes() has ended, with the
\* concatenation of the frames received in arrival order, and the reply
\* stream is opened only after it has returned.
C19_TranscribeOnceAfterInput ==
    /\ Len(ws_stt) <= 1
    /\ ws_pc \in AfterTranscribe => Len(ws_stt) = 1
    /\ ws_pc \in {"idle", "receive", "transcribe"} =>
          Len(ws_stt) = 0 /\ ws_items = 0 /\ ws_out = <<>>
    /\ \A i \in DOMAIN ws_stt :
          ws_client = "disconnected" /\ ws_stt[i] = Flatten(ws_frames)
    /\ ws_items > 0 \/ ws_out # <<>> => Len(ws_stt) = 1

C19_Witness ==
    /\ ws_pc = "stream" /\ ws_items > 0
    /\ Len(ws_frames) = 2 /\ ws_frames[1] # ws_frames[2]
    /\ ws_stt = <<ws_frames[1] \o ws_frames[2]>>

\* C20: every audio chunk and the report are sent over an open transport
\* and reach the client.
C20_SendsDelivered ==
    \A i \in DOMAIN ws_out : ws_out[i].delivered

\* ======================================================================
\* Concurrent WebSocket sessions (src/server/server.py 70-98): one call of
\* the coroutine streaming_audio per connection, interleaved at its awaits
\* ======================================================================
\* the text a session's own reply stream yields is marked with its letter
Letter(s) == IF s = 1 THEN "a" ELSE "b"
OwnFragments(s) == {<<Letter(s)>>, <<Letter(s), ".">>}

\* variant: response and chunk_response are module-level variables
SharedFrame(s) == 1

\* server.py 85-86: response and chunk_response are local variables of the
\* coroutine, one frame per call
Frame(s) == s

\* server.py 70-86: up to the opening of the reply stream
ConcOpen(s) ==
    /\ c_pc[s] = "idle"
    /\ c_locals' = [c_locals EXCEPT ![Frame(s)] = [response |-> <<>>, chunk_response |-> <<>>]]
    /\ c_pc' = [c_pc EXCEPT ![s] = "stream"]
    /\ UNCHANGED <<c_fed, c_sent, c_saved, notConc>>

\* server.py 88-94: one item of the stream, up to the await of send_bytes
ConcItem(s) ==
    /\ c_pc[s] = "stream"
    /\ Len(c_fed[s]) < MaxConcText
    /\ \E content \in OwnFragments(s) :
          LET l  == c_locals[Frame(s)]
              cr == l.chunk_response \o content
              r  == l.response \o content
          IN  /\ c_fed' = [c_fed EXCEPT ![s] = @ \o content]
              /\ c_locals' = [c_locals EXCEPT ![Frame(s)] =
                                 [response |-> r, chunk_response |-> cr]]
              /\ IF SentenceEnd(r)
                    THEN /\ c_sent' = [c_sent EXCEPT ![s] = Append(@, cr)]
                         /\ c_pc' = [c_pc EXCEPT ![s] = "sending"]
                    ELSE UNCHANGED <<c_sent, c_pc>>
    /\ UNCHANGED <<c_saved, notConc>>

\* server.py 95: send_bytes has returned, the pending chunk is reset
ConcSendReturned(s) ==
    /\ c_pc[s] = "sending"
    /\ c_locals' = [c_locals EXCEPT ![Frame(s)].chunk_response = <<>>]
    /\ c_pc' = [c_pc EXCEPT ![s] = "stream"]
    /\ UNCHANGED <<c_fed, c_sent, c_saved, notConc>>

\* server.py 97-98: the reply is appended to the transcript and persisted
ConcSave(s) ==
    /\ c_pc[s] = "stream"
    /\ c_saved' = [c_saved EXCEPT ![s] = c_locals[Frame(s)].response]
    /\ c_pc' = [c_pc EXCEPT ![s] = "done"]
    /\ UNCHANGED <<c_locals, c_fed, c_sent, notConc>>

ConcNext ==
    \E s \in Sessions :
        \/ ConcOpen(s)
        \/ ConcItem(s)
        \/ ConcSendReturned(s)
        \/ ConcSave(s)

ConcSpecInit == LoopIdle /\ AuxInit

ConcSpec == ConcSpecInit /\ [][ConcNext]_allVars

IsPrefix(p, q) == Len(p) <= Len(q) /\ p = SubSeq(q, 1, Len(p))

\* C12: with interleaved sessions, the chunks sent on a connection are
\* consecutive pieces of that session's own reply stream and the persisted
\* reply is exactly what that stream yielded.
C12_SessionLocalChunker ==
    \A s \in Sessions :
        /\ \A i \in DOMAIN c_sent[s] :
              \A j \in DOMAIN c_sent[s][i] : c_sent[s][i][j] \in {Letter(s), "."}
        /\ IsPrefix(Flatten(c_sent[s]), c_fed[s])
        /\ c_pc[s] = "done" => c_saved[s] = c_fed[s]

C12_Witness ==
    /\ c_pc[1] = "sending" /\ c_pc[2] = "done"
    /\ c_sent[1] # <<>> /\ c_sent[2] # <<>> /\ Len(c_saved[2]) > 1

\* ======================================================================
\* Remaining properties of the turn loop and of the voice tables
\* ======================================================================
\* C21: speak / ws_speak is never called with an empty string.
C21_DispatchedChunksNonEmpty ==
    \A i \in DOMAIN dispatched : dispatched[i].text # <<>>

\* CLI.py 35-43: the menu of select_lang, number -> (language name, code)
languages ==
    <<  <<"English", "en-UK">>, <<"French", "fr-FR">>, <<"Spanish", "es-ES">>,
        <<"Mandarin", "cmn-HANS-CN">>, <<"Japanese", "ja-JP">>,
        <<"German", "de-DE">>, <<"Italian", "it-IT">>  >>

CliLanguageNames == {languages[i][1] : i \in DOMAIN languages}
CliLanguageCodes == {languages[i][2] : i \in DOMAIN languages}

\* C22: each of the seven names of the menu has a voice, and a WebSocket
\* session opened with any of the seven codes of the menu meets no lookup
\* failure on its way to synthesis.
C22_MenuCodesReachSynthesis ==
    /\ \A l \in CliLanguageNames : l \in DOMAIN voices
    /\ ws_lang \in CliLanguageCodes => ws_error \notin KeyErrors

\* ======================================================================
\* MicrophoneStream (src/server/services/stt_service.py 26-123): the audio
\* callback thread, the thread of the with block and the consumer of
\* generator(), interleaved at the operations of the thread-safe queue
\* ======================================================================
MicFrames == {<<1>>, <<2>>}

AudioItem(in_data) == [none |-> FALSE, data |-> in_data]
Sentinel == [none |-> TRUE, data |-> <<>>]

\* variant: a queue that hands out the newest item first
PutFirst(buff, item) == <<item>> \o buff

\* queue.Queue.put: first in, first out
Put(buff, item) == Append(buff, item)

\* b"".join(data)
Join(data) == Flatten(data)

\* stt_service.py 46-64 and 178-179: the stream is opened, the callback is
\* registered, and the generator object is created
MicEnter ==
    /\ mic_main = "idle"
    /\ mic_stream' = "active"
    /\ mic_closed' = FALSE
    /\ mic_main' = "inside"
    /\ mic_gen' = "created"
    /\ UNCHANGED <<mic_buff, mic_data, mic_put, mic_yielded, mic_none_at, notMic>>

\* stt_service.py 81-100: the callback of an active stream puts one frame
FillBuffer ==
    /\ mic_stream = "active"
    /\ Len(mic_put) < MaxMicFrames
    /\ \E in_data \in MicFrames :
          /\ mic_buff' = Put(mic_buff, AudioItem(in_data))
          /\ mic_put' = Append(mic_put, in_data)
    /\ UNCHANGED <<mic_main, mic_stream, mic_closed, mic_gen, mic_data,
                   mic_yielded, mic_none_at, notMic>>

\* stt_service.py 73-74: stop_stream() and close(); no callback afterwards
ExitStop ==
    /\ mic_main = "inside"
    /\ mic_stream' = "stopped"
    /\ mic_main' = "stopped"
    /\ UNCHANGED <<mic_closed, mic_buff, mic_gen, mic_data, mic_put,
                   mic_yielded, mic_none_at, notMic>>

\* stt_service.py 75
ExitClose ==
    /\ mic_main = "stopped"
    /\ mic_closed' = TRUE
    /\ mic_main' = "closed"
    /\ UNCHANGED <<mic_stream, mic_buff, mic_gen, mic_data, mic_put,
                   mic_yielded, mic_none_at, notMic>>

\* variant: __exit__ ends without putting the sentinel
ExitWithoutSignal ==
    /\ mic_main = "closed"
    /\ mic_main' = "exited"
    /\ UNCHANGED <<mic_stream, mic_closed, mic_buff, mic_gen, mic_data, mic_put,
                   mic_yielded, mic_none_at, notMic>>

\* stt_service.py 78-79: the sentinel is put and __exit__ returns
ExitSignal ==
    /\ mic_main = "closed"
    /\ mic_buff' = Put(mic_buff, Sentinel)
    /\ mic_main' = "exited"
    /\ UNCHANGED <<mic_stream, mic_closed, mic_gen, mic_data, mic_put,
                   mic_yielded, mic_none_at, notMic>>

\* stt_service.py 108: the loop test, at the first next() and at each
\* resumption after a yield
GenTest ==
    /\ mic_gen \in {"created", "yielded"}
    /\ mic_gen' = IF mic_closed THEN "returned" ELSE "get"
    /\ UNCHANGED <<mic_main, mic_stream, mic_closed, mic_buff, mic_data, mic_put,
                   mic_yielded, mic_none_at, notMic>>

\* stt_service.py 109-112: the blocking get
GenGet ==
    /\ mic_gen = "get"
    /\ mic_buff # <<>>
    /\ mic_buff' = Tail(mic_buff)
    /\ IF Head(mic_buff).none
          THEN /\ mic_gen' = "returned"
               /\ mic_none_at' = Len(mic_yielded)
               /\ UNCHANGED mic_data
          ELSE /\ mic_gen' = "drain"
               /\ mic_data' = <<Head(mic_buff).data>>
               /\ UNCHANGED mic_none_at
    /\ UNCHANGED <<mic_main, mic_stream, mic_closed, mic_put, mic_yielded, notMic>>

\* stt_service.py 114-123: one get(block=False); queue.Empty ends the inner
\* loop and the joined data is yielded
GenDrain ==
    /\ mic_gen = "drain"
    /\ IF mic_buff = <<>>
          THEN /\ mic_yielded' = Append(mic_yielded,
                     [frames |-> Len(mic_data), bytes |-> Join(mic_data)])
               /\ mic_gen' = "yielded"
               /\ UNCHANGED <<mic_buff, mic_data, mic_none_at>>
          ELSE /\ mic_buff' = Tail(mic_buff)
               /\ IF Head(mic_buff).none
                     THEN /\ mic_gen' = "returned"
                          /\ mic_none_at' = Len(mic_yielded)
                          /\ UNCHANGED mic_data
                     ELSE /\ mic_data' = Append(mic_data, Head(mic_buff).data)
                          /\ UNCHANGED <<mic_gen, mic_none_at>>
               /\ UNCHANGED mic_yielded
    /\ UNCHANGED <<mic_main, mic_stream, mic_closed, mic_put, notMic>>

Consumer == GenTest \/ GenGet \/ GenDrain

MicNext ==
    \/ MicEnter
    \/ FillBuffer
    \/ ExitStop
    \/ ExitClose
    \/ ExitSignal
    \/ GenTest
    \/ GenGet
    \/ GenDrain

MicSpecInit == LoopIdle /\ AuxInit

MicSpec == MicSpecInit /\ [][MicNext]_allVars

\* the thread that iterates the request generator keeps running
MicLiveSpec == MicSpec /\ WF_allVars(Consumer)

YieldedBytes == Flatten([i \in DOMAIN mic_yielded |-> mic_yielded[i].bytes])

\* C23: what generator() has yielded, joined, is a prefix of the frames the
\* callback has put, joined; every yielded item holds at least one frame;
\* nothing is yielded once None has been dequeued.
C23_YieldedIsPrefixOfPut ==
    /\ IsPrefix(YieldedBytes, Flatten(mic_put))
    /\ \A i \in DOMAIN mic_yielded : mic_yielded[i].frames >= 1
    /\ mic_none_at >= 0 => Len(mic_yielded) = mic_none_at /\ mic_gen = "returned"

C23_Witness ==
    /\ Len(mic_yielded) = 2 /\ mic_yielded[1].frames = 2
    /\ mic_put = << <<1>>, <<2>>, <<1>> >> /\ mic_none_at = 2

\* C24: after __exit__ has returned, the consumer of generator() returns.
C24_ConsumerTerminatesAfterExit ==
    (mic_main = "exited") ~> (mic_gen = "returned")

C24_Witness ==
    /\ mic_main = "exited" /\ mic_gen = "returned" /\ mic_none_at >= 0
    /\ mic_yielded # <<>>

====
